---- MODULE Spec2Model ----
(***************************************************************************)
(* The scroll-triggered counter animation of src/WISE/script.js.           *)
(*                                                                         *)
(* JavaScript numbers are IEEE-754 binary64 values.  They are modelled     *)
(* exactly: a finite number is sign * m * 2^e with m a natural number of   *)
(* at most 53 bits, and every arithmetic result is rounded to nearest,     *)
(* ties to even.  TLC's integers have 32 bits, so m is kept as a sequence  *)
(* of 15-bit limbs, least significant first.                               *)
(***************************************************************************)
EXTENDS Integers, Sequences, FiniteSets, TLC

Min(a, b) == IF a < b THEN a ELSE b
Max(a, b) == IF a > b THEN a ELSE b

(***************************************************************************)
(* Natural numbers of any size: sequences of limbs, radix 2^15, least      *)
(* significant limb first, no leading zero limb; zero is <<>>.  The        *)
(* operations split their operand in halves, so that the depth of the      *)
(* recursion is logarithmic in its length.                                 *)
(***************************************************************************)
LimbBits == 15
Base == 2^LimbBits

\* TLC evaluates the argument of an operator when it is first used.  Forced(v)
\* is true and uses v: a recursive operator starts with it, so that the
\* evaluations of the operands it is handed do not nest.
Forced(v) == v = v

Limb(a, i) == IF i <= Len(a) THEN a[i] ELSE 0

RECURSIVE BNorm(_)
BNorm(a) ==
  IF a = <<>> THEN a
  ELSE IF a[Len(a)] = 0 THEN BNorm(SubSeq(a, 1, Len(a) - 1)) ELSE a

BFromNat(n) ==
  IF n = 0 THEN <<>>
  ELSE IF n < Base THEN <<n>>
  ELSE IF n < Base * Base THEN <<n % Base, n \div Base>>
  ELSE <<n % Base, (n \div Base) % Base, n \div (Base * Base)>>

\* limbs lo..hi of a result, with the carry (or borrow, or remainder) c that
\* leaves the range
Part(d, c) == [d |-> d, c |-> c]
After(d, next) == Part(d \o next.d, next.c)
Before(next, d) == Part(next.d \o d, next.c)

\* a + b + carry
RECURSIVE BAddRange(_, _, _, _, _), BAddRest(_, _, _, _, _)
BAddRange(a, b, lo, hi, carry) ==
  IF Forced(carry) /\ lo > hi THEN Part(<<>>, carry)
  ELSE IF lo = hi
  THEN Part(<<(Limb(a, lo) + Limb(b, lo) + carry) % Base>>,
            (Limb(a, lo) + Limb(b, lo) + carry) \div Base)
  ELSE BAddRest(a, b, (lo + hi) \div 2, hi,
                BAddRange(a, b, lo, (lo + hi) \div 2, carry))

BAddRest(a, b, mid, hi, low) ==
  After(low.d, BAddRange(a, b, mid + 1, hi, low.c))

WithCarry(r) == IF r.c = 0 THEN r.d ELSE r.d \o <<r.c>>

BAdd(a, b) == WithCarry(BAddRange(a, b, 1, Max(Len(a), Len(b)), 0))

\* a - b for a >= b
RECURSIVE BSubRange(_, _, _, _, _), BSubRest(_, _, _, _, _)
BSubRange(a, b, lo, hi, borrow) ==
  IF Forced(borrow) /\ lo > hi THEN Part(<<>>, borrow)
  ELSE IF lo = hi
  THEN Part(<<(a[lo] - Limb(b, lo) - borrow) % Base>>,
            IF a[lo] - Limb(b, lo) - borrow < 0 THEN 1 ELSE 0)
  ELSE BSubRest(a, b, (lo + hi) \div 2, hi,
                BSubRange(a, b, lo, (lo + hi) \div 2, borrow))

BSubRest(a, b, mid, hi, low) ==
  After(low.d, BSubRange(a, b, mid + 1, hi, low.c))

BSub(a, b) == BNorm(BSubRange(a, b, 1, Len(a), 0).d)

\* limbs lo..hi of a and b compared from the most significant down: -1, 0, 1
FirstDifference(high, low) == IF high # 0 THEN high ELSE low

RECURSIVE BCmpRange(_, _, _, _)
BCmpRange(a, b, lo, hi) ==
  IF lo > hi THEN 0
  ELSE IF lo = hi
  THEN (IF a[lo] < b[lo] THEN -1 ELSE IF a[lo] > b[lo] THEN 1 ELSE 0)
  ELSE FirstDifference(BCmpRange(a, b, (lo + hi) \div 2 + 1, hi),
                       BCmpRange(a, b, lo, (lo + hi) \div 2))

BCmp(a, b) ==
  IF Len(a) < Len(b) THEN -1
  ELSE IF Len(a) > Len(b) THEN 1
  ELSE BCmpRange(a, b, 1, Len(a))

\* a * c + carry for a small natural c (c <= Base)
RECURSIVE BMulRange(_, _, _, _, _), BMulRest(_, _, _, _, _)
BMulRange(a, c, lo, hi, carry) ==
  IF Forced(carry) /\ lo > hi THEN Part(<<>>, carry)
  ELSE IF lo = hi
  THEN Part(<<(a[lo] * c + carry) % Base>>, (a[lo] * c + carry) \div Base)
  ELSE BMulRest(a, c, (lo + hi) \div 2, hi,
                BMulRange(a, c, lo, (lo + hi) \div 2, carry))

BMulRest(a, c, mid, hi, low) ==
  After(low.d, BMulRange(a, c, mid + 1, hi, low.c))

BMulC(a, c, carry) == BNorm(WithCarry(BMulRange(a, c, 1, Len(a), carry)))

BMulSmall(a, c) == BMulC(a, c, 0)

\* short division by a small natural d (0 < d <= Base), from the most
\* significant limb down: quotient and remainder
RECURSIVE BDivRange(_, _, _, _, _), BDivRest(_, _, _, _, _)
BDivRange(a, d, lo, hi, r) ==
  IF Forced(r) /\ lo > hi THEN Part(<<>>, r)
  ELSE IF lo = hi
  THEN Part(<<(r * Base + a[lo]) \div d>>, (r * Base + a[lo]) % d)
  ELSE BDivRest(a, d, lo, (lo + hi) \div 2,
                BDivRange(a, d, (lo + hi) \div 2 + 1, hi, r))

BDivRest(a, d, lo, mid, high) ==
  Before(BDivRange(a, d, lo, mid, high.c), high.d)

QuotRem(p) == [q |-> BNorm(p.d), r |-> p.c]

BDivSmall(a, d) == QuotRem(BDivRange(a, d, 1, Len(a), 0))

RECURSIVE BitLenSmall(_)
BitLenSmall(n) == IF n = 0 THEN 0 ELSE 1 + BitLenSmall(n \div 2)

BBitLen(a) ==
  IF a = <<>> THEN 0 ELSE LimbBits * (Len(a) - 1) + BitLenSmall(a[Len(a)])

BOdd(a) == a # <<>> /\ a[1] % 2 = 1

BHalf(a) == BDivSmall(a, 2).q

\* a * 2^k
BShl(a, k) ==
  IF a = <<>> THEN a
  ELSE [i \in 1..(k \div LimbBits) |-> 0] \o BMulSmall(a, 2^(k % LimbBits))

\* floor(a / 2^k), and whether any 1 bit was shifted out
ShiftedOut(a, w, d) ==
  [q  |-> d.q,
   st |-> d.r # 0 \/ \E i \in 1..w : a[i] # 0]

BShr(a, k) ==
  ShiftedOut(a, Min(k \div LimbBits, Len(a)),
             BDivSmall(SubSeq(a, Min(k \div LimbBits, Len(a)) + 1, Len(a)),
                       2^(k % LimbBits)))

\* a * 10^n
RECURSIVE BMulPow10(_, _)
BMulPow10(a, n) ==
  IF Forced(a) /\ n <= 4 THEN BMulSmall(a, 10^n)
  ELSE BMulPow10(BMulPow10(a, n \div 2), n - n \div 2)

\* floor(a / 10^n), and whether the division left a remainder
Inexact(d, st) == [q |-> d.q, st |-> st \/ d.r # 0]

RECURSIVE BDivPow10(_, _, _), BDivPow10Rest(_, _)
BDivPow10(a, n, st) ==
  IF Forced(a) /\ n <= 4 THEN Inexact(BDivSmall(a, 10^n), st)
  ELSE BDivPow10Rest(BDivPow10(a, n \div 2, st), n - n \div 2)

BDivPow10Rest(r, n) == BDivPow10(r.q, n, r.st)

(***************************************************************************)
(* binary64 values                                                         *)
(***************************************************************************)
MantBits == 53
MinExp == -1074
MaxExp == 971

NaN == [k |-> "nan", s |-> 0, m |-> <<>>, e |-> 0]
Infinity(s) == [k |-> "inf", s |-> s, m |-> <<>>, e |-> 0]
Zero(s) == [k |-> "fin", s |-> s, m |-> <<>>, e |-> 0]
Fin(s, m, e) == [k |-> "fin", s |-> s, m |-> m, e |-> e]

IsNaN(x) == x.k = "nan"
IsZero(x) == x.k = "fin" /\ x.m = <<>>

\* The double nearest to (-1)^s * v (ties to even), where v = m * 2^e when
\* st is false and m * 2^e < v < (m + 1) * 2^e when st is true.  A caller
\* that passes st = TRUE passes an m of more than 53 bits.
RoundToDouble(s, m, e, st) ==
  IF m = <<>> THEN Zero(s)
  ELSE
    LET L  == BBitLen(m)
        e1 == Max(e + L - MantBits, MinExp)
        d  == e1 - e
    IN  IF d <= 0
        THEN IF e1 > MaxExp THEN Infinity(s) ELSE Fin(s, BShl(m, -d), e1)
        ELSE
          LET sh    == BShr(m, d - 1)
              q2    == BHalf(sh.q)
              up    == BOdd(sh.q) /\ (sh.st \/ st \/ BOdd(q2))
              m1    == IF up THEN BAdd(q2, <<1>>) ELSE q2
              carry == BBitLen(m1) > MantBits
              m2    == IF carry THEN BHalf(m1) ELSE m1
              e2    == IF carry THEN e1 + 1 ELSE e1
          IN  IF e2 > MaxExp THEN Infinity(s)
              ELSE IF m2 = <<>> THEN Zero(s)
              ELSE Fin(s, m2, e2)

\* an exponent gap beyond which the smaller operand of a sum is less than a
\* quarter of the unit in the last place of the larger one
GapBits == 64

\* x + y
DAdd(x, y) ==
  IF IsNaN(x) \/ IsNaN(y) THEN NaN
  ELSE IF x.k = "inf"
       THEN (IF y.k = "inf" /\ y.s # x.s THEN NaN ELSE x)
  ELSE IF y.k = "inf" THEN y
  ELSE IF IsZero(x) /\ IsZero(y) THEN Zero(IF x.s = y.s THEN x.s ELSE 0)
  ELSE IF IsZero(x) THEN y
  ELSE IF IsZero(y) THEN x
  ELSE
    LET em == Min(x.e, y.e)
        ax == BShl(x.m, x.e - em)
        ay == BShl(y.m, y.e - em)
        c  == BCmp(ax, ay)
        hi == IF x.e > y.e THEN x ELSE y
        h4 == BShl(hi.m, 2)
    IN  IF x.e - y.e > GapBits \/ y.e - x.e > GapBits
        THEN \* the smaller operand is below a quarter of the last place of
             \* the larger one: it only decides the direction of rounding
             IF x.s = y.s THEN RoundToDouble(hi.s, h4, hi.e - 2, TRUE)
             ELSE RoundToDouble(hi.s, BSub(h4, <<1>>), hi.e - 2, TRUE)
        ELSE IF x.s = y.s THEN RoundToDouble(x.s, BAdd(ax, ay), em, FALSE)
        ELSE IF c = 0 THEN Zero(0)
        ELSE IF c > 0 THEN RoundToDouble(x.s, BSub(ax, ay), em, FALSE)
        ELSE RoundToDouble(y.s, BSub(ay, ax), em, FALSE)

\* x / n for a literal natural n, 0 < n <= 2^15
DDivNat(x, n) ==
  IF x.k # "fin" \/ IsZero(x) THEN x
  ELSE LET d == BDivSmall(BShl(x.m, 64), n)
       IN  RoundToDouble(x.s, d.q, x.e - 64, d.r # 0)

\* magnitudes of two finite values: -1, 0 or 1
MagCmp(x, y) ==
  IF IsZero(x) THEN (IF IsZero(y) THEN 0 ELSE -1)
  ELSE IF IsZero(y) THEN 1
  ELSE IF x.e < y.e THEN -1
  ELSE IF x.e > y.e THEN 1
  ELSE BCmp(x.m, y.m)

\* x compared with y, neither NaN: -1, 0 or 1
DCmp(x, y) ==
  LET sx == IF IsZero(x) THEN 0 ELSE IF x.s = 1 THEN -1 ELSE 1
      sy == IF IsZero(y) THEN 0 ELSE IF y.s = 1 THEN -1 ELSE 1
      mc == IF x.k = "inf" THEN (IF y.k = "inf" THEN 0 ELSE 1)
            ELSE IF y.k = "inf" THEN -1
            ELSE MagCmp(x, y)
  IN  IF sx < sy THEN -1
      ELSE IF sx > sy THEN 1
      ELSE sx * mc

\* x >= y
DGe(x, y) == ~IsNaN(x) /\ ~IsNaN(y) /\ DCmp(x, y) >= 0

(***************************************************************************)
(* Strings to numbers: parseFloat and parseInt                             *)
(***************************************************************************)
Ch(str, i) == IF 1 <= i /\ i <= Len(str) THEN SubSeq(str, i, i) ELSE ""

WhiteSpace == {" ", "\t", "\n", "\r", "\f"}

DecimalDigits == <<"0", "1", "2", "3", "4", "5", "6", "7", "8", "9">>

IsDigit(c) == \E d \in 1..10 : DecimalDigits[d] = c

DigitVal(c) == (CHOOSE d \in 1..10 : DecimalDigits[d] = c) - 1

HexVal(c) ==
  IF IsDigit(c) THEN DigitVal(c)
  ELSE IF c \in {"a", "A"} THEN 10
  ELSE IF c \in {"b", "B"} THEN 11
  ELSE IF c \in {"c", "C"} THEN 12
  ELSE IF c \in {"d", "D"} THEN 13
  ELSE IF c \in {"e", "E"} THEN 14
  ELSE IF c \in {"f", "F"} THEN 15
  ELSE 16

\* index of the first character at or after i that is not white space
RECURSIVE SkipWhite(_, _)
SkipWhite(str, i) ==
  IF Ch(str, i) \in WhiteSpace THEN SkipWhite(str, i + 1) ELSE i

\* index of the first character at or after i that is not a digit of the radix
RECURSIVE ScanDigits(_, _, _)
ScanDigits(str, i, radix) ==
  IF Ch(str, i) # "" /\ HexVal(Ch(str, i)) < radix
  THEN ScanDigits(str, i + 1, radix) ELSE i

\* the number written by the digits str[i..j-1], skipping a '.'
RECURSIVE DigitsValue(_, _, _, _, _)
DigitsValue(str, i, j, radix, acc) ==
  IF ~Forced(acc) \/ i >= j THEN acc
  ELSE IF Ch(str, i) = "." THEN DigitsValue(str, i + 1, j, radix, acc)
  ELSE DigitsValue(str, i + 1, j, radix,
                   BNorm(BMulC(acc, radix, HexVal(Ch(str, i)))))

\* the exponent written by the digits str[i..j-1], saturating at ExpCap
ExpCap == 100000

RECURSIVE ExpValue(_, _, _, _)
ExpValue(str, i, j, acc) ==
  IF ~Forced(acc) \/ i >= j THEN acc
  ELSE ExpValue(str, i + 1, j, Min(acc * 10 + DigitVal(Ch(str, i)), ExpCap))

\* the double nearest to (-1)^s * D * 10^x, D written with nd digits
DecToDouble(s, D, x, nd) ==
  IF D = <<>> THEN Zero(s)
  ELSE IF x >= 0
       THEN (IF x > 400 THEN Infinity(s)
             ELSE RoundToDouble(s, BMulPow10(D, x), 0, FALSE))
  ELSE IF nd + x < -400 THEN Zero(s)
  ELSE LET K == 4 * (-x) + 64
           r == BDivPow10(BShl(D, K), -x, FALSE)
       IN  RoundToDouble(s, r.q, -K, r.st)

\* parseFloat(str): the longest prefix of the trimmed string that is a
\* decimal literal, NaN when there is none
parseFloat(str) ==
  LET i0     == SkipWhite(str, 1)
      s      == IF Ch(str, i0) = "-" THEN 1 ELSE 0
      i1     == IF Ch(str, i0) \in {"+", "-"} THEN i0 + 1 ELSE i0
      j      == ScanDigits(str, i1, 10)
      hasDot == Ch(str, j) = "."
      k      == IF hasDot THEN ScanDigits(str, j + 1, 10) ELSE j
      nInt   == j - i1
      nFrac  == IF hasDot THEN k - (j + 1) ELSE 0
      hasE   == Ch(str, k) \in {"e", "E"}
      es     == IF Ch(str, k + 1) = "-" THEN -1 ELSE 1
      q      == IF Ch(str, k + 1) \in {"+", "-"} THEN k + 2 ELSE k + 1
      r      == ScanDigits(str, q, 10)
      ex     == IF hasE /\ r > q THEN es * ExpValue(str, q, r, 0) ELSE 0
  IN  IF SubSeq(str, i1, Min(i1 + 7, Len(str))) = "Infinity" THEN Infinity(s)
      ELSE IF nInt + nFrac = 0 THEN NaN
      ELSE DecToDouble(s, DigitsValue(str, i1, k, 10, <<>>), ex - nFrac,
                       nInt + nFrac)

\* parseInt(str) with no radix argument
parseInt(str) ==
  LET i0    == SkipWhite(str, 1)
      s     == IF Ch(str, i0) = "-" THEN 1 ELSE 0
      i1    == IF Ch(str, i0) \in {"+", "-"} THEN i0 + 1 ELSE i0
      hex   == Ch(str, i1) = "0" /\ Ch(str, i1 + 1) \in {"x", "X"}
      radix == IF hex THEN 16 ELSE 10
      i2    == IF hex THEN i1 + 2 ELSE i1
      j     == ScanDigits(str, i2, radix)
  IN  IF j = i2 THEN NaN
      ELSE RoundToDouble(s, DigitsValue(str, i2, j, radix, <<>>), 0, FALSE)

(***************************************************************************)
(* Numbers to strings: Number.prototype.toFixed                            *)
(***************************************************************************)
MaxFractionDigits == 100

\* ToIntegerOrInfinity of the fractionDigits argument; every value below 0
\* is returned as -1 and every value above 100 as 101
FractionDigits(fd) ==
  IF IsNaN(fd) \/ IsZero(fd) THEN 0
  ELSE IF fd.k = "inf" \/ fd.e >= 0
       THEN (IF fd.s = 1 THEN -1 ELSE MaxFractionDigits + 1)
  ELSE LET t == BShr(fd.m, -fd.e).q
           v == IF t = <<>> THEN 0
                ELSE IF Len(t) > 1 THEN MaxFractionDigits + 1
                ELSE Min(t[1], MaxFractionDigits + 1)
       IN  IF v = 0 THEN 0 ELSE IF fd.s = 1 THEN -1 ELSE v

RECURSIVE Zeros(_)
Zeros(n) ==
  IF n <= 0 THEN ""
  ELSE IF n = 1 THEN "0"
  ELSE Zeros(n \div 2) \o Zeros(n - n \div 2)

\* the decimal digits of a natural number below 10000, "" for zero
RECURSIVE SmallDecimal(_)
SmallDecimal(n) ==
  IF n = 0 THEN ""
  ELSE SmallDecimal(n \div 10) \o DecimalDigits[(n % 10) + 1]

Padded(str, k) == Zeros(k - Len(str)) \o str

\* exactly k decimal digits of a natural number n < 10^k
RECURSIVE BDigits(_, _), BDigitsSplit(_, _, _, _)
BDigits(n, k) ==
  IF Forced(n) /\ k <= 4 THEN Padded(SmallDecimal(Limb(n, 1)), k)
  ELSE BDigitsSplit(n, k, k \div 2, BDivPow10(n, k \div 2, FALSE).q)

BDigitsSplit(n, k, h, q) ==
  BDigits(q, k - h) \o BDigits(BSub(n, BMulPow10(q, h)), h)

RECURSIVE StripZeros(_)
StripZeros(str) ==
  IF Len(str) > 0 /\ SubSeq(str, 1, 1) = "0"
  THEN StripZeros(SubSeq(str, 2, Len(str))) ELSE str

\* the decimal digits of a natural number, "" for zero
BDecimal(n) == StripZeros(BDigits(n, (BBitLen(n) * 31) \div 100 + 2))

\* 10^21, from which toFixed switches to the exponential notation
TenPow21 == BMulPow10(<<1>>, 21)

\* the integer n for which n / 10^f - |x| is as close to zero as possible,
\* the larger n when there are two
FixedInteger(x, f) ==
  LET num == BMulPow10(x.m, f)
  IN  IF x.e >= 0 THEN BShl(num, x.e)
      ELSE BHalf(BAdd(BShr(num, -x.e - 1).q, <<1>>))

\* Number::toString of a finite x >= 10^21: the shortest digits d1..dk with
\* d1..dk * 10^(n-k) rounding to x, written d1.d2..dk e+(n-1)
SigPick(X, xd, lo, hi, pLo, pHi) ==
  LET okLo == RoundToDouble(0, pLo, 0, FALSE) = xd
      okHi == RoundToDouble(0, pHi, 0, FALSE) = xd
      c    == BCmp(BSub(X, pLo), BSub(pHi, X))
  IN  IF okLo /\ okHi
      THEN <<IF c < 0 \/ (c = 0 /\ ~BOdd(lo)) THEN lo ELSE hi>>
      ELSE IF okLo THEN <<lo>>
      ELSE IF okHi THEN <<hi>>
      ELSE <<>>

SigBounds(X, xd, lo, n, k) ==
  SigPick(X, xd, lo, BAdd(lo, <<1>>),
          BMulPow10(lo, n - k), BMulPow10(BAdd(lo, <<1>>), n - k))

SigDigits(X, xd, n, k) ==
  SigBounds(X, xd, BDivPow10(X, n - k, FALSE).q, n, k)

MaxSigDigits == 17

RECURSIVE ShortestDigits(_, _, _, _)
ShortestDigits(X, xd, n, k) ==
  IF k >= MaxSigDigits \/ SigDigits(X, xd, n, k) # <<>>
  THEN [k |-> k, c |-> SigDigits(X, xd, n, k)[1]]
  ELSE ShortestDigits(X, xd, n, k + 1)

ExpDigits(n, k, ds) ==
  LET up == Len(ds) > k
      d  == IF up THEN "1" ELSE ds
  IN  SubSeq(d, 1, 1) \o (IF Len(d) > 1 THEN "." \o SubSeq(d, 2, Len(d)) ELSE "")
      \o "e+" \o SmallDecimal(IF up THEN n ELSE n - 1)

ExpShortest(n, sd) == ExpDigits(n, sd.k, BDecimal(sd.c))

ExpOfLength(X, xd, n) == ExpShortest(n, ShortestDigits(X, xd, n, 1))

ExpOfInteger(X, xd) == ExpOfLength(X, xd, Len(BDecimal(X)))

ExpNotation(x) == ExpOfInteger(BShl(x.m, x.e), Fin(0, x.m, x.e))

\* x formatted with f digits after the decimal point, 0 <= f
FixedString(x, f) ==
  IF IsNaN(x) THEN "NaN"
  ELSE IF x.k = "inf" THEN (IF x.s = 1 THEN "-Infinity" ELSE "Infinity")
  ELSE IF x.e >= 0 /\ BCmp(BShl(x.m, x.e), TenPow21) >= 0
       THEN (IF x.s = 1 THEN "-" ELSE "") \o ExpNotation(x)
  ELSE
    LET sg == IF x.s = 1 /\ ~IsZero(x) THEN "-" ELSE ""
        n  == FixedInteger(x, f)
        m0 == IF n = <<>> THEN "0" ELSE BDecimal(n)
        m1 == IF Len(m0) <= f THEN Zeros(f + 1 - Len(m0)) \o m0 ELSE m0
        k  == Len(m1)
        m  == IF f = 0 THEN m0
              ELSE SubSeq(m1, 1, k - f) \o "." \o SubSeq(m1, k - f + 1, k)
    IN  sg \o m

\* x.toFixed(fd): throws a RangeError unless 0 <= fd <= 100
toFixed(x, fd) ==
  LET f == FractionDigits(fd)
  IN  IF f < 0 \/ f > MaxFractionDigits
      THEN [throws |-> TRUE, value |-> "RangeError"]
      ELSE [throws |-> FALSE, value |-> FixedString(x, f)]

(***************************************************************************)
(* The page: the markup the script runs against                            *)
(***************************************************************************)
\* a data-* attribute: <<>> when the attribute is absent, <<str>> when set
Undefined == <<>>
Attr(str) == <<str>>

\* an element of class ticker-number
Counter(t, d) ==
  [dataset |-> [target |-> t, decimals |-> d], textContent |-> "--"]

\* a page: whether an element with id 'ticker' exists, and the
\* .ticker-number elements inside it, in document order
Page(hasTicker, els) == [ticker |-> hasTicker, counters |-> els]

Pages ==
  { Page(FALSE, <<>>),
    Page(TRUE, <<>>),
    Page(TRUE, <<Counter(Attr("250"), Attr("1"))>>),
    Page(TRUE, <<Counter(Attr("0"), Attr("0"))>>),
    Page(TRUE, <<Counter(Attr("-250"), Attr("2"))>>),
    Page(TRUE, <<Counter(Attr("3"), Attr("2"))>>),
    Page(TRUE, <<Counter(Attr(" 12.5px"), Undefined)>>),
    Page(TRUE, <<Counter(Undefined, Attr("abc"))>>),
    Page(TRUE, <<Counter(Attr("7.36e-322"), Attr(""))>>),
    Page(TRUE, <<Counter(Attr("5e-324"), Attr("0"))>>),
    Page(TRUE, <<Counter(Attr("Infinity"), Attr("0"))>>),
    Page(TRUE, <<Counter(Attr("1e21"), Attr("0x2"))>>),
    Page(TRUE, <<Counter(Attr("0.1"), Attr("3")),
                 Counter(Attr("-0.5"), Attr("101"))>>),
    Page(TRUE, <<Counter(Attr("n/a"), Attr("0")),
                 Counter(Attr("0"), Attr("2"))>>),
    Page(TRUE, <<Counter(Attr("250"), Attr("1")),
                 Counter(Attr("-3"), Attr("2"))>>),
    Page(TRUE, <<Counter(Attr("250"), Attr("101"))>>),
    Page(TRUE, <<Counter(Attr("n/a"), Attr("-1"))>>) }

\* window.innerHeight, and the values getBoundingClientRect().top takes
innerHeight == 600
Positions == {innerHeight - 1, innerHeight, innerHeight + 1}

\* bounds of the exploration: scroll events delivered, and callbacks of one
\* timer that are followed
MaxScrolls == 2
MaxTicks == 150

(***************************************************************************)
(* State                                                                   *)
(***************************************************************************)
VARIABLES
  page,         \* the markup, fixed for the page load
  pos,          \* ticker.getBoundingClientRect().top as of the latest event
  loaded,       \* the DOMContentLoaded handler has run
  listening,    \* animateTicker is registered as a scroll listener
  started,      \* let started (line 7)
  intervals,    \* the timers set by setInterval, each with its closure
  textContent,  \* textContent of each counter element
  scrolls,      \* scroll events delivered so far
  errors        \* exceptions thrown out of a callback so far

vars == <<page, pos, loaded, listening, started, intervals, textContent,
          scrolls, errors>>

counters == page.counters

Init ==
  /\ page \in Pages
  /\ pos \in Positions
  /\ loaded = FALSE
  /\ listening = FALSE
  /\ started = FALSE
  /\ intervals = <<>>
  /\ textContent = [i \in 1..Len(page.counters) |-> page.counters[i].textContent]
  /\ scrolls = 0
  /\ errors = 0

(***************************************************************************)
(* animateTicker (lines 9-30)                                              *)
(***************************************************************************)
\* String(el.dataset.target), the argument parseFloat converts
TargetString(el) ==
  IF el.dataset.target = Undefined THEN "undefined" ELSE el.dataset.target[1]

\* String(el.dataset.decimals || 0), the argument parseInt converts
DecimalsString(el) ==
  IF el.dataset.decimals = Undefined \/ el.dataset.decimals[1] = ""
  THEN "0" ELSE el.dataset.decimals[1]

\* target / 100
StepOf(target) == DDivNat(target, 100)

\* the timer started for counter element i (lines 15-20): the closure
\* variables target, decimals, count and step; active until clearInterval;
\* fired counts the runs of its callback
NewInterval(i) ==
  [el       |-> i,
   target   |-> parseFloat(TargetString(counters[i])),
   decimals |-> parseInt(DecimalsString(counters[i])),
   count    |-> Zero(0),
   step     |-> StepOf(parseFloat(TargetString(counters[i]))),
   active   |-> TRUE,
   fired    |-> 0]

\* Visible with the comparison of line 12 written <=; C6_Threshold tells the
\* two apart
VisibleOrEqual(p) == p <= innerHeight

\* pos < window.innerHeight
Visible(p) == p < innerHeight

\* forEach that runs its callback for the first element only;
\* C11_FlagGatesContainer tells the two apart
StartFirst ==
  intervals \o [i \in 1..Min(1, Len(counters)) |-> NewInterval(i)]

\* counters.forEach(...): one new timer per counter element
StartAll == intervals \o [i \in 1..Len(counters) |-> NewInterval(i)]

\* animateTicker that takes the flag back when the container is out of
\* view; C12_WriteOnce tells the two apart
animateTickerTracking(p) ==
  IF Visible(p)
  THEN IF started THEN UNCHANGED <<started, intervals>>
       ELSE /\ started' = TRUE
            /\ intervals' = StartAll
  ELSE /\ started' = FALSE
       /\ UNCHANGED intervals

\* animateTicker that cancels the timers when it finds the container out of
\* view after the trigger; C17_PositionIndependent tells the two apart
animateTickerPausing(p) ==
  IF started
  THEN /\ UNCHANGED started
       /\ intervals' = IF Visible(p) THEN intervals
                       ELSE [t \in 1..Len(intervals) |->
                               [intervals[t] EXCEPT !.active = FALSE]]
  ELSE IF Visible(p)
       THEN /\ started' = TRUE
            /\ intervals' = StartAll
       ELSE UNCHANGED <<started, intervals>>

\* animateTicker without the guard of line 10; C1_AtMostOnce tells the two
\* apart
animateTickerUnguarded(p) ==
  IF Visible(p)
  THEN /\ started' = TRUE
       /\ intervals' = StartAll
  ELSE UNCHANGED <<started, intervals>>

\* a call of animateTicker that reads top as p
animateTicker(p) ==
  IF started THEN UNCHANGED <<started, intervals>>
  ELSE IF Visible(p)
       THEN /\ started' = TRUE
            /\ intervals' = StartAll
       ELSE UNCHANGED <<started, intervals>>

(***************************************************************************)
(* The DOMContentLoaded handler (lines 3-33)                               *)
(***************************************************************************)
\* line 31 without line 32; C5_ImmediateCheck tells the two apart
RegisterOnly ==
  /\ listening' = TRUE
  /\ UNCHANGED <<started, intervals>>

\* lines 31-32: register the listener, then one immediate check
RegisterAndCheck ==
  /\ listening' = TRUE
  /\ animateTicker(pos)

\* the handler without the guard of line 5; C4_MissingContainer tells the
\* two apart
DOMContentLoadedUnguarded ==
  /\ ~loaded
  /\ loaded' = TRUE
  /\ RegisterAndCheck
  /\ UNCHANGED <<page, pos, textContent, scrolls, errors>>

DOMContentLoaded ==
  /\ ~loaded
  /\ loaded' = TRUE
  /\ IF ~page.ticker
     THEN UNCHANGED <<listening, started, intervals>>
     ELSE RegisterAndCheck
  /\ UNCHANGED <<page, pos, textContent, scrolls, errors>>

(***************************************************************************)
(* A scroll event: the container moves to p, the listener (if any) runs.    *)
(* A scroll event before DOMContentLoaded reaches no code of the script;   *)
(* the position it leaves is the initial pos.                              *)
(***************************************************************************)
Scroll(p) ==
  /\ loaded
  /\ scrolls < MaxScrolls
  /\ scrolls' = scrolls + 1
  /\ pos' = p
  /\ IF listening THEN animateTicker(p) ELSE UNCHANGED <<started, intervals>>
  /\ UNCHANGED <<page, loaded, listening, textContent, errors>>

(***************************************************************************)
(* One run of the callback of timer t (lines 20-27)                        *)
(***************************************************************************)
\* count += step
Increment(iv) == DAdd(iv.count, iv.step)

\* the comparison of line 22 written >; C8_ZeroTarget tells the two apart
ReachedStrict(count, target) ==
  ~IsNaN(count) /\ ~IsNaN(target) /\ DCmp(count, target) > 0

\* the comparison of line 22 turned round for a target below zero, so that
\* the running value has to come down to the target; C9_NegativeTarget tells
\* the two apart
ReachedTowards(count, target) ==
  IF ~IsNaN(target) /\ target.s = 1
  THEN DGe(target, count)
  ELSE DGe(count, target)

\* count >= target
Reached(count, target) == DGe(count, target)

\* the callback without lines 22-25's assignment count = target;
\* C14_PositiveTarget tells the two apart
Unclamped(iv) == Increment(iv)

\* lines 22-25: the value of count after the clamp
Clamped(iv) ==
  IF Reached(Increment(iv), iv.target) THEN iv.target ELSE Increment(iv)

\* clearInterval that cancels every timer of the page;
\* C16_TimerIffAnimating tells the two apart
ClearEvery(ivs, t) ==
  [u \in 1..Len(ivs) |-> [ivs[u] EXCEPT !.active = FALSE]]

\* clearInterval(interval) for timer t
ClearInterval(ivs, t) == [ivs EXCEPT ![t].active = FALSE]

\* the timers after the callback of timer t has run
AfterTick(ivs, t) ==
  LET counted == [ivs EXCEPT ![t].count = Clamped(ivs[t]),
                             ![t].fired = ivs[t].fired + 1]
  IN  IF Reached(Increment(ivs[t]), ivs[t].target)
      THEN ClearInterval(counted, t) ELSE counted

Tick(t) ==
  /\ intervals[t].active
  /\ intervals[t].fired < MaxTicks
  /\ intervals' = AfterTick(intervals, t)
  /\ LET txt == toFixed(Clamped(intervals[t]), intervals[t].decimals)
     IN  IF txt.throws
         THEN /\ errors' = errors + 1
              /\ UNCHANGED textContent
         ELSE /\ textContent' = [textContent EXCEPT ![intervals[t].el] = txt.value]
              /\ UNCHANGED errors
  /\ UNCHANGED <<page, pos, loaded, listening, started, scrolls>>

Next ==
  \/ DOMContentLoaded
  \/ \E p \in Positions : Scroll(p)
  \/ \E t \in 1..Len(intervals) : Tick(t)

Spec == Init /\ [][Next]_vars

(***************************************************************************)
(* Properties                                                              *)
(***************************************************************************)
Timers == 1..Len(intervals)

\* the digits toFixed is asked for by timer t
Digits(t) == FractionDigits(intervals[t].decimals)

\* the target of timer t written with the digits of timer t
TargetText(t) == FixedString(intervals[t].target, Digits(t))

Negative(x) == x.k # "nan" /\ x.s = 1 /\ ~IsZero(x)

\* C1: the animation set is started at most once per page load: timers are
\* created only in the step that sets started, one per counter element, and
\* once started is set it stays set, no step creates a timer, and a scroll
\* event (a later call of animateTicker) changes no timer, no running value
\* and no text.
C1_AtMostOnce ==
  [][/\ Len(intervals') # Len(intervals)
          => /\ ~started /\ started'
             /\ intervals = <<>>
             /\ Len(intervals') = Len(counters)
     /\ started
          => /\ started'
             /\ Len(intervals') = Len(intervals)
             /\ scrolls' # scrolls
                  => intervals' = intervals /\ textContent' = textContent
    ]_vars

\* a started page whose container has been scrolled back below the fold
\* while a timer is in mid-run
C1_Witness ==
  /\ started
  /\ scrolls >= 1
  /\ ~(pos < innerHeight)
  /\ \E t \in Timers : intervals[t].active /\ intervals[t].fired > 0

\* C2: once a timer has cancelled itself, the text of its counter element is
\* the target formatted to decimals fractional digits, for all targets and
\* all decimals values.
C2_TerminalValueExact ==
  \A t \in Timers :
    ~intervals[t].active => textContent[intervals[t].el] = TargetText(t)

\* C3: the callback of each timer runs at most 101 times, whatever the target.
C3_TickBound ==
  \A t \in Timers : intervals[t].fired <= 101

\* C4: on a page with no element of id 'ticker', after setup no listener is
\* registered, no check has triggered, no timer exists, no text has changed
\* and no error was raised, however many scroll events follow.
C4_MissingContainer ==
  (loaded /\ ~page.ticker)
    => /\ ~listening
       /\ ~started
       /\ intervals = <<>>
       /\ errors = 0
       /\ textContent = [i \in 1..Len(counters) |-> counters[i].textContent]

\* a page without ticker, set up, scrolled to where a container would trigger
C4_Witness ==
  /\ loaded
  /\ ~page.ticker
  /\ scrolls >= 1
  /\ pos < innerHeight

\* C5: setup makes one check right after registering the listener: when the
\* container's top is below the viewport height at page-ready time the
\* animation starts in the setup step itself, with no scroll event; when it
\* is not, the animation starts at the first scroll event that finds it so.
C5_ImmediateCheck ==
  [][/\ (~loaded /\ loaded' /\ page.ticker /\ pos < innerHeight)
          => started' /\ listening' /\ scrolls' = 0
     /\ (listening /\ ~started /\ scrolls' = scrolls + 1 /\ pos' < innerHeight)
          => started'
    ]_vars

\* the timers run although no scroll event has been delivered
C5_Witness ==
  /\ started
  /\ scrolls = 0
  /\ intervals # <<>>

\* the effect of a check that reads top as p while started is false
CheckEffect(p) ==
  /\ started' <=> p < innerHeight
  /\ p >= innerHeight
       => intervals' = intervals /\ textContent' = textContent

\* C6: a check made while started is false triggers if and only if the top
\* it reads is strictly less than the viewport height; otherwise started
\* stays false, no timer is created and no text changes.
C6_Threshold ==
  [][/\ (~loaded /\ loaded' /\ page.ticker) => CheckEffect(pos)
     /\ (listening /\ ~started /\ scrolls' # scrolls) => CheckEffect(pos')
    ]_vars

\* a check has read a top equal to the viewport height and has not triggered
C6_Witness ==
  /\ listening
  /\ scrolls >= 1
  /\ pos = innerHeight
  /\ ~started
  /\ intervals = <<>>

\* C7: a tick of one timer changes only that timer and the text of its own
\* element, and the tick that cancels a timer leaves in its element the
\* timer's own target written with its own decimals.
C7_Independent ==
  [][\A t \in Timers :
       (Len(intervals') = Len(intervals) /\ intervals'[t] # intervals[t])
         => /\ \A u \in Timers \ {t} : intervals'[u] = intervals[u]
            /\ \A j \in 1..Len(counters) :
                 j # intervals[t].el => textContent'[j] = textContent[j]
            /\ ~intervals'[t].active
                 => textContent'[intervals[t].el] = TargetText(t)
    ]_vars

\* C8: a counter with target 0 has step 0, and its first tick cancels the
\* timer, so the callback runs exactly once; with decimals 0 that tick
\* writes "0".
C8_ZeroTarget ==
  \A t \in Timers :
    IsZero(intervals[t].target)
      => /\ IsZero(intervals[t].step)
         /\ \/ intervals[t].fired = 0 /\ intervals[t].active
            \/ intervals[t].fired = 1 /\ ~intervals[t].active
         /\ (intervals[t].fired = 1 /\ Digits(t) = 0)
              => textContent[intervals[t].el] = "0"

\* the counter with target "0" and decimals "0" after its only tick
C8_Witness ==
  \E t \in Timers :
    /\ counters[intervals[t].el].dataset.target = Attr("0")
    /\ counters[intervals[t].el].dataset.decimals = Attr("0")
    /\ intervals[t].fired = 1
    /\ ~intervals[t].active
    /\ textContent[intervals[t].el] = "0"

StateIn(ivs, i) ==
  IF \A t \in 1..Len(ivs) : ivs[t].el # i THEN "Idle"
  ELSE IF \E t \in 1..Len(ivs) : ivs[t].el = i /\ ivs[t].active
       THEN "Animating"
  ELSE "Settled"

\* C10: each counter moves Idle -> Animating -> Settled only: it leaves Idle
\* only in the step that sets started; a tick whose incremented value has
\* not reached the target leaves it Animating; the first tick whose
\* incremented value reaches or exceeds the target makes it Settled and
\* writes the exact target in that tick; once Settled its timer and its
\* text never change.
C10_StateMachine ==
  [][\A i \in 1..Len(counters) :
       /\ StateIn(intervals, i) = "Idle"
            => /\ StateIn(intervals', i) \in {"Idle", "Animating"}
               /\ StateIn(intervals', i) = "Animating" => ~started /\ started'
       /\ StateIn(intervals, i) = "Animating"
            => \A t \in Timers :
                 intervals[t].el = i
                   => IF intervals'[t].fired = intervals[t].fired
                      THEN intervals'[t] = intervals[t]
                      ELSE IF Reached(Increment(intervals[t]), intervals[t].target)
                      THEN /\ StateIn(intervals', i) = "Settled"
                           /\ textContent'[i] = TargetText(t)
                      ELSE StateIn(intervals', i) = "Animating"
       /\ StateIn(intervals, i) = "Settled"
            => /\ StateIn(intervals', i) = "Settled"
               /\ textContent'[i] = textContent[i]
               /\ \A t \in Timers : intervals[t].el = i => intervals'[t] = intervals[t]
    ]_vars

\* C11: the flag gates the whole container: the step that sets started
\* starts a timer for every counter element, so in every reachable state
\* either started is false and every counter is Idle, or started is true and
\* no counter is Idle.
C11_FlagGatesContainer ==
  /\ ~started => \A i \in 1..Len(counters) : StateIn(intervals, i) = "Idle"
  /\ started => \A i \in 1..Len(counters) : StateIn(intervals, i) # "Idle"

\* a container of two counters right after the trigger: both have a timer,
\* neither has ticked
C11_Witness ==
  /\ started
  /\ Len(counters) = 2
  /\ \A i \in 1..2 : StateIn(intervals, i) = "Animating"
  /\ \A t \in Timers : intervals[t].fired = 0

\* a check of a page with a ticker, made in this step while started is
\* false, reads a top below the viewport height
ObservedInView ==
  \/ ~loaded /\ loaded' /\ page.ticker /\ pos < innerHeight
  \/ listening /\ scrolls' # scrolls /\ pos' < innerHeight

\* C12: started is write-once: it starts false, it becomes true in exactly
\* the step of the first check that finds the container's top below the
\* viewport height, and once true it is true in every later state, whatever
\* scroll events and ticks follow.
C12_WriteOnce ==
  /\ ~started
  /\ [][/\ started => started'
        /\ ~started => (started' <=> ObservedInView)
       ]_vars

\* started still holds after two scroll events that left the container
\* below the fold, with a timer already cancelled
C12_Witness ==
  /\ started
  /\ scrolls >= 2
  /\ pos = innerHeight + 1
  /\ \E t \in Timers : ~intervals[t].active

\* C13: with timer ticks delivered fairly, every counter with a numeric
\* target eventually settles and cancels its timer.  The callback computes
\* the next running value from count, step and target alone, so the claim
\* requires each tick of such a counter to cancel the timer or to move the
\* running value: a tick that leaves the timer active with the running value
\* it found is repeated by every later tick, and the counter never settles.
C13_NumericTargetSettles ==
  [][\A t \in Timers :
       ( /\ Len(intervals') = Len(intervals)
         /\ ~IsNaN(intervals[t].target)
         /\ intervals'[t].fired # intervals[t].fired )
         => \/ ~intervals'[t].active
            \/ intervals'[t].count # intervals[t].count
    ]_vars

Positive(x) == ~IsNaN(x) /\ x.s = 0 /\ ~IsZero(x)

\* k * x, for a natural k
DTimesNat(x, k) ==
  IF x.k # "fin" \/ IsZero(x) THEN x
  ELSE IF k = 0 THEN Zero(x.s)
  ELSE RoundToDouble(x.s, BMulSmall(x.m, k), x.e, FALSE)

\* the values of the expression k * target / 100, grouped either way
KSteps(iv, k) ==
  { DTimesNat(iv.step, k), DDivNat(DTimesNat(iv.target, k), 100) }

\* the number a text shows
Shown(text) == parseFloat(text)

\* timer t has run its callback in this step
Ticked(t) ==
  /\ Len(intervals') = Len(intervals)
  /\ intervals'[t].fired # intervals[t].fired

\* the callback of timer t has written its element in this step, over a
\* text written by an earlier callback
Rewrote(t) ==
  /\ Ticked(t)
  /\ errors' = errors
  /\ intervals[t].fired >= 1

\* C14 as stated: for a positive target the running value after the k-th
\* tick is k * target/100 for k < 100 and exactly the target at the settling
\* tick, each tick shows a strictly larger value than the tick before, the
\* running value stays within 0..target, and no value shown exceeds the
\* target.
C14_LinearGrowth ==
  [][\A t \in Timers :
       (Ticked(t) /\ Positive(intervals[t].target))
         => /\ (intervals'[t].active /\ intervals'[t].fired < 100)
                 => intervals'[t].count \in KSteps(intervals[t], intervals'[t].fired)
            /\ ~intervals'[t].active
                 => intervals'[t].count = intervals[t].target
            /\ Rewrote(t)
                 => DCmp(Shown(textContent'[intervals[t].el]),
                         Shown(textContent[intervals[t].el])) > 0
            /\ DGe(intervals'[t].count, Zero(0))
            /\ DGe(intervals[t].target, intervals'[t].count)
            /\ errors' = errors
                 => DGe(intervals[t].target, Shown(textContent'[intervals[t].el]))
    ]_vars

\* C14 as amended: for a positive target the running value after the k-th
\* tick is the sum of k steps as the additions round it, which lies between
\* (k - 1) * step and (k + 1) * step, and it is exactly the target at the
\* settling tick; the running value never decreases and stays within
\* 0..target; a value shown is never smaller than the one shown before it
\* and never larger than the target as shown with the same decimals.
C14_PositiveTarget ==
  [][\A t \in Timers :
       (Ticked(t) /\ Positive(intervals[t].target))
         => /\ intervals'[t].active
                 => /\ intervals'[t].count = DAdd(intervals[t].count, intervals[t].step)
                    /\ DGe(intervals'[t].count,
                            DTimesNat(intervals[t].step, intervals[t].fired))
                    /\ DGe(DTimesNat(intervals[t].step, intervals'[t].fired + 1),
                            intervals'[t].count)
            /\ ~intervals'[t].active
                 => intervals'[t].count = intervals[t].target
            /\ DGe(intervals'[t].count, intervals[t].count)
            /\ DGe(intervals'[t].count, Zero(0))
            /\ DGe(intervals[t].target, intervals'[t].count)
            /\ Rewrote(t)
                 => DGe(Shown(textContent'[intervals[t].el]),
                        Shown(textContent[intervals[t].el]))
            /\ errors' = errors
                 => DGe(Shown(TargetText(t)), Shown(textContent'[intervals[t].el]))
    ]_vars

\* the counter with target "3" settled at its 101st tick, showing "3.00"
C14_Witness ==
  \E t \in Timers :
    /\ counters[intervals[t].el].dataset.target = Attr("3")
    /\ intervals[t].fired = 101
    /\ ~intervals[t].active
    /\ intervals[t].count = intervals[t].target
    /\ textContent[intervals[t].el] = "3.00"

\* C15: for a counter whose target parses to NaN the clamp condition is
\* false on every tick, so its timer is never cancelled: the counter never
\* settles, and each tick leaves the timer running and rewrites the text of
\* its element (with "NaN", the running value as toFixed writes it).
C15_NaNNeverSettles ==
  [][\A t \in Timers :
       (Len(intervals') = Len(intervals) /\ IsNaN(intervals[t].target))
         => /\ intervals[t].active
            /\ intervals'[t].active
            /\ Ticked(t)
                 => /\ ~Reached(Increment(intervals[t]), intervals[t].target)
                    /\ errors' = errors
                    /\ textContent'[intervals[t].el] = "NaN"
    ]_vars

\* a tick of timer t has found the running value at or past the target
HasSettled(t) ==
  /\ intervals[t].fired >= 1
  /\ Reached(intervals[t].count, intervals[t].target)

\* no timer before the trigger; after it, one timer per counter element,
\* active exactly while its counter has not settled
TimerPerCounter ==
  /\ ~started => intervals = <<>>
  /\ started
       => \A i \in 1..Len(counters) :
            Cardinality({t \in Timers : intervals[t].el = i}) = 1
  /\ \A t \in Timers :
       /\ intervals[t].el \in 1..Len(counters)
       /\ intervals[t].active <=> ~HasSettled(t)

\* C16: a counter has an active timer if and only if it is Animating
\* (triggered and not yet settled): no timer exists before the trigger, each
\* counter has at most one timer ever, a timer is never restarted, a tick
\* cancels only the timer it belongs to, and once every counter has settled
\* no timer is active.
C16_TimerIffAnimating ==
  /\ TimerPerCounter
  /\ [][/\ TimerPerCounter'
         /\ \A t \in Timers :
              Len(intervals') = Len(intervals)
                => /\ intervals'[t].el = intervals[t].el
                   /\ intervals'[t].active => intervals[t].active
                   /\ intervals'[t].active # intervals[t].active => Ticked(t)
        ]_vars

\* two counters, one settled with its timer cancelled while the timer of
\* the other is in mid-run
C16_Witness ==
  /\ Len(counters) = 2
  /\ \E t, u \in Timers :
       /\ HasSettled(t)
       /\ ~intervals[t].active
       /\ intervals[u].active
       /\ intervals[u].fired >= 1

\* C17: once the animation has been triggered its progress does not depend
\* on where the container is: the listener stays registered, a scroll event
\* changes no timer, no running value and no text and raises no error,
\* wherever it leaves the container, and neither does it take back started.
C17_PositionIndependent ==
  [][/\ listening => listening'
     /\ (started /\ scrolls' # scrolls)
          => /\ listening
             /\ started'
             /\ intervals' = intervals
             /\ textContent' = textContent
             /\ errors' = errors
             /\ \A t \in Timers :
                  intervals'[t].active = intervals[t].active
    ]_vars

\* the counter with target "250" has run its 100 ticks and shows "250.0"
\* although a scroll event has moved the container below the fold
C17_Witness ==
  /\ started
  /\ scrolls >= 1
  /\ pos > innerHeight
  /\ \E t \in Timers :
       /\ intervals[t].fired = 100
       /\ ~intervals[t].active
       /\ textContent[intervals[t].el] = "250.0"

====
